---- MODULE Spec2Model ----
(***************************************************************************)
(* Raffle backend: participations, payments, ticket allocation and prize   *)
(* draws.  One raffle, its participations (each with at most one payment), *)
(* its tickets, one prize and the prize's draws.  The database is the      *)
(* shared state; every service call or admin handler runs in a worker      *)
(* slot and is cut at the points where another transaction can commit      *)
(* between two of its statements (READ COMMITTED, row locks are held to    *)
(* the end of the transaction, a transaction's writes appear at commit).   *)
(***************************************************************************)
EXTENDS Integers, FiniteSets, Sequences, TLC

\* ---------------------------------------------------------------- bounds
TotalTickets == 3      \* raffle.total_tickets of the modelled raffle
MaxParts == 2          \* participations ever created
MaxCount == 2          \* largest ticket_count requested
MaxPayGen == 1         \* payments ever created for one participation
NProc == 2             \* concurrent requests / workers
MaxPre == 1            \* participations already there when a race starts

PIDs == 1..(MaxParts + MaxPre)
PreIDs == (MaxParts + 1)..(MaxParts + MaxPre)
Slots == 1..NProc
Numbers == 0..(TotalTickets - 1)

VARIABLES
    raffle,     \* [status, is_active] of the Raffle row
    parts,      \* ids of the Participation rows that exist
    count,      \* Participation.ticket_count, by participation id
    nextId,     \* next Participation primary key
    pay,        \* Payment.status of the participation's payment, "NONE" if absent
    payPk,      \* number of Payment rows ever created for the participation
    tickets,    \* Ticket rows: records [n |-> ticket_number, p |-> participation]
    jobs,       \* participations with a scheduled cleanup_expired_participation
    rlock,      \* slot holding the Raffle row lock, 0 if free
    plock,      \* slot holding the Payment row lock of a participation, 0 if free
    proc,       \* the call running in each slot
    keep,       \* TRUE: a finished call stays in its slot with its result
    prize,      \* the Prize row: [winner, ticket, delivered]
    draws,      \* the Draw rows of the prize, by primary key
    clock,      \* timezone.now(), in days
    completed,  \* primary keys of the draws that a call has completed
    dcall,      \* the draw or prize call running in each slot
    pricing,    \* [currency, ticket_price] of the Raffle row, price in cents
    rates,      \* ExchangeRate rows: rate by date in 1/10000, 0 if no row
    payrows,    \* the reported details of the Payment rows
    alock,      \* slot holding the row lock of a participation, 0 if free
    made,       \* participations whose Payment a create_payment call inserted
    pcall,      \* the create_payment call running in each slot
    calc,       \* one application of calculate_payment_amount
    attempts,   \* cache entry bcv_update_attempts_<today>, 0 if absent
    scraped,    \* calls of BCVScraper.get_processed_data made today
    ucall       \* the update_bcv_rate run in each slot

drawvars == <<prize, draws, clock, completed, dcall>>

\* the rate update job
jobvars == <<attempts, scraped, ucall>>

payvars == <<pricing, rates, payrows, alock, made, pcall, calc, jobvars>>

\* payvars without the Payment rows
ratevars == <<pricing, rates, alock, made, pcall, calc, jobvars>>

vars == <<raffle, parts, count, nextId, pay, payPk, tickets, jobs, rlock, plock,
          proc, keep, drawvars, payvars>>

dbvars == <<raffle, parts, count, nextId, pay, payPk, tickets, jobs>>

\* ------------------------------------------------------------- call slots
Idle == [op |-> "idle", pc |-> "idle", p |-> 0, gen |-> 0, st |-> "NONE",
         new |-> "NONE", k |-> 0, chosen |-> {}, ret |-> "none"]

Call(op, pc, p, gen, st, new, k, chosen) ==
    [op |-> op, pc |-> pc, p |-> p, gen |-> gen, st |-> st, new |-> new,
     k |-> k, chosen |-> chosen, ret |-> "none"]

\* The call of slot s returns ret (an exception name, or "ok").
Finish(s, ret) ==
    IF keep THEN [proc EXCEPT ![s].pc = "done", ![s].ret = ret]
            ELSE [proc EXCEPT ![s] = Idle]

Goto(s, pc) == [proc EXCEPT ![s].pc = pc]

\* ------------------------------------------------------- prize and draws
MaxDraws == 3          \* Draw rows ever created for the prize
MaxDay == 1            \* last day of the modelled calendar
NullNumber == 0 - 1    \* null of winning_number / winner_ticket_number

DrawIds == 1..MaxDraws
Days == 0..MaxDay

\* Prize.winner_participation (0: null), winner_ticket_number, delivered_at
NoWinner == [winner |-> 0, ticket |-> NullNumber, delivered |-> FALSE]

\* Prize.is_delivered
is_delivered(pz) == pz.delivered

\* Draw.status, winning_number, draw_time; status "NONE": no such row
NoDraw == [status |-> "NONE", wn |-> NullNumber, time |-> 0]

ScheduledDraw(t) == [status |-> "SCHEDULED", wn |-> NullNumber, time |-> t]

\* status "DELETED": a row that was deleted, its primary key is not reused
DrawsOfPrize == {d \in DrawIds : draws[d].status \notin {"NONE", "DELETED"}}

\* primary key of the next Draw row
NextDrawId == Cardinality({d \in DrawIds : draws[d].status # "NONE"}) + 1

\* Prize.winner_participation: on_delete = SET_NULL
WinnerSetNull(p) ==
    IF prize.winner = p THEN [prize EXCEPT !.winner = 0] ELSE prize

DIdle == [op |-> "idle", pc |-> "idle", d |-> 0, dr |-> NoDraw,
          wn |-> NullNumber, pz |-> NoWinner, tk |-> 0, late |-> FALSE,
          ret |-> "none", why |-> "none"]

\* The draw or prize call of slot s returns ret (an exception name, with the
\* message of the exception in why, or "ok"); the result stays in the slot
\* until the slot takes its next call.
DFinish(s, ret, why) ==
    [dcall EXCEPT ![s] = [DIdle EXCEPT !.op = dcall[s].op, !.pc = "done",
                                       !.d = dcall[s].d,
                                       !.late = dcall[s].late,
                                       !.ret = ret, !.why = why]]

DFree(s) == dcall[s].pc \in {"idle", "done"}

\* One prize, not assigned, with one SCHEDULED draw.
DrawInit ==
    /\ prize = NoWinner
    /\ draws = [d \in DrawIds |-> IF d = 1 THEN ScheduledDraw(0) ELSE NoDraw]
    /\ clock = 0
    /\ completed = {}
    /\ dcall = [s \in Slots |-> DIdle]

\* ------------------------------------------------------ currency conversion
\* Money is counted in cents (DecimalField, decimal_places=2), a rate in
\* ten-thousandths (ExchangeRate.rate, decimal_places=4).
MaxRateDay == 2
RateScale == 10000
NoRate == 0
NullDate == 0 - 1

RateDays == 0..MaxRateDay
Currencies == {"USD", "VEF"}
RateValues == {3, 366525, 400000}

\* Raffle.ticket_price, in cents, of a raffle priced in currency c
PricesIn(c) == IF c = "USD" THEN {1, 999, 1000} ELSE {1, 36653, 40000}

\* PaymentMethod rows: 1 is a ZELLE account, 2 a PAGO_MOVIL account, 3 a
\* BINANCE account; save() sets the currency from the method type.
Methods == 1..3
MethodCurrency(m) == IF m = 2 THEN "VEF" ELSE "USD"

\* raffle.available_payment_methods
available_payment_methods == {1, 2}

\* ExchangeRate.objects.filter(date__lte=target_date).order_by("-date").first(),
\* as the date of the row found
LookupIgnoresDate(target_date) ==
    LET S == {d \in RateDays : rates[d] # NoRate} IN
    IF S = {} THEN NullDate ELSE CHOOSE d \in S : \A e \in S : e <= d

get_exchange_rate_for_date(target_date) ==
    LET S == {d \in RateDays : rates[d] # NoRate /\ d <= target_date} IN
    IF S = {} THEN NullDate ELSE CHOOSE d \in S : \A e \in S : e <= d

\* (num / den).quantize(Decimal("0.01"), rounding=ROUND_HALF_UP), num / den
\* in cents: the digits after the cent are dropped and the cent is raised
\* when they are half a cent or more.
quantize_round_down(num, den) == num \div den

quantize_half_up(num, den) ==
    IF 2 * (num % den) >= den THEN (num \div den) + 1 ELSE num \div den

NoAmount == [err |-> "", amount |-> 0, currency |-> "", rate |-> NoRate,
             rate_date |-> NullDate]

\* calculate_payment_amount(participation, payment_method, payment_date) for
\* a participation of ticket_count cnt: (amount_to_pay, payment_currency,
\* exchange_rate), or the exception raised.
calculate_payment_amount(cnt, m, payment_date) ==
    LET base_amount == pricing.ticket_price * cnt
        raffle_currency == pricing.currency
        payment_currency == MethodCurrency(m)
        rate_obj == get_exchange_rate_for_date(payment_date)
        exchange_rate == rates[rate_obj]
    IN
    IF m \notin available_payment_methods
    THEN [NoAmount EXCEPT !.err = "InvalidPaymentMethodError"]
    ELSE IF raffle_currency = payment_currency
    THEN [NoAmount EXCEPT !.amount = base_amount, !.currency = payment_currency]
    ELSE IF rate_obj = NullDate
    THEN [NoAmount EXCEPT !.err = "ExchangeRateUnavailableError"]
    ELSE IF raffle_currency = "USD" /\ payment_currency = "VEF"
    THEN [err |-> "", currency |-> payment_currency,
          amount |-> quantize_half_up(base_amount * exchange_rate, RateScale),
          rate |-> exchange_rate, rate_date |-> rate_obj]
    ELSE IF raffle_currency = "VEF" /\ payment_currency = "USD"
    THEN [err |-> "", currency |-> payment_currency,
          amount |-> quantize_half_up(base_amount * RateScale, exchange_rate),
          rate |-> exchange_rate, rate_date |-> rate_obj]
    ELSE [NoAmount EXCEPT !.err = "PaymentCalculationError"]

\* one application of calculate_payment_amount, before and after
NoCalc == [pc |-> "none", cnt |-> 0, m |-> 0, date |-> 0, out |-> NoAmount]

Calculate ==
    /\ calc.pc = "in"
    /\ calc' = [calc EXCEPT !.pc = "out",
                   !.out = calculate_payment_amount(calc.cnt, calc.m, calc.date)]
    /\ UNCHANGED <<dbvars, rlock, plock, proc, keep, drawvars,
                   pricing, rates, payrows, alock, made, pcall, jobvars>>

\* create_payment calls
PIdle == [pc |-> "idle", p |-> 0, m |-> 0, ref |-> "", date |-> 0,
          out |-> NoAmount, ret |-> ""]

\* No update_bcv_rate run yet today.
UIdle == [pc |-> "idle", n |-> 0]

NoRuns ==
    /\ attempts = 0
    /\ scraped = 0
    /\ ucall = [s \in Slots |-> UIdle]

NoPayCalls ==
    /\ alock = [p \in PIDs |-> 0]
    /\ made = {}
    /\ pcall = [s \in Slots |-> PIdle]
    /\ NoRuns

PayInit ==
    /\ pricing = [currency |-> "USD", ticket_price |-> 1000]
    /\ rates = [d \in RateDays |-> NoRate]
    /\ payrows = {}
    /\ calc = NoCalc
    /\ NoPayCalls


\* ---------------------------------------------------------------- tickets
\* participation.tickets
TicketsOf(p) == {t \in tickets : t.p = p}

NumbersOf(p) == {t.n : t \in TicketsOf(p)}

\* tickets/services.py: existing_ticket_numbers
existing_ticket_numbers == {t.n : t \in tickets}

\* tickets/services.py: all_possible_numbers = range(0, raffle.total_tickets)
all_possible_numbers == Numbers

EveryNumberAvailable == all_possible_numbers

\* tickets/services.py: available_numbers
available_numbers == all_possible_numbers \ existing_ticket_numbers

\* random.sample(available_numbers, ticket_count): any subset of that size
Samples(avail, n) == {c \in SUBSET avail : Cardinality(c) = n}

NewTickets(p, chosen) == {[n |-> x, p |-> p] : x \in chosen}

IgnoreUnique(chosen) == FALSE

\* Ticket.Meta.unique_together = ("raffle", "ticket_number"): the insert of
\* a number some committed Ticket of the raffle already has is refused.
UniqueViolation(chosen) == chosen \cap existing_ticket_numbers # {}

HasTicketsNever(p) == FALSE

\* participation.tickets.exists()
HasTickets(p) == TicketsOf(p) # {}

\* The Payment rows left when those of participation p are deleted.
RowsWithout(p) == {r \in payrows : r.p # p}

\* A Payment object (participation p, primary key gen) still has its row.
PaymentExists(p, gen) == p \in parts /\ pay[p] # "NONE" /\ payPk[p] = gen

\* -------------------------------------------------------------- Init
RaffleStates == [status : {"IN_PROGRESS", "FINISHED"}, is_active : BOOLEAN]

EmptyDB ==
    /\ parts = {}
    /\ count = [p \in PIDs |-> 0]
    /\ nextId = 1
    /\ pay = [p \in PIDs |-> "NONE"]
    /\ payPk = [p \in PIDs |-> 0]
    /\ tickets = {}
    /\ jobs = {}

NoCalls ==
    /\ rlock = 0
    /\ plock = [p \in PIDs |-> 0]
    /\ proc = [s \in Slots |-> Idle]
    /\ DrawInit
    /\ PayInit

Init ==
    /\ raffle \in RaffleStates
    /\ EmptyDB
    /\ NoCalls
    /\ keep = FALSE

\* ------------------------------------------------- participation creation
RECURSIVE SumCount(_)
SumCount(S) ==
    IF S = {} THEN 0
    ELSE LET x == CHOOSE y \in S : TRUE IN count[x] + SumCount(S \ {x})

Max(a, b) == IF a >= b THEN a ELSE b

\* raffle.participations, none excluded
AllParticipations == parts

\* raffle.participations.exclude(payment__status="REJECTED")
NotRejected == {p \in parts : pay[p] # "REJECTED"}

\* participants/services_sync.py: get_available_tickets_count_sync
get_available_tickets_count_sync ==
    IF raffle.status # "IN_PROGRESS" THEN 0
    ELSE Max(0, TotalTickets - SumCount(NotRejected))

RaffleLockIgnored == TRUE

\* Raffle.objects.select_for_update().get(pk=raffle_id) waits for the row lock
RaffleLockFree == rlock = 0

\* A request to create_participation_sync(ticket_count = k) takes the Raffle
\* row lock and validates the raffle.
CreateLock(s, k) ==
    /\ proc[s].op = "idle"
    /\ nextId + Cardinality({t \in Slots : proc[t].pc \in {"cp_check", "cp_insert"}})
           <= MaxParts
    /\ RaffleLockFree
    /\ IF ~raffle.is_active \/ raffle.status # "IN_PROGRESS"
       THEN /\ proc' = Finish(s, "RaffleNotAvailableError")
            /\ UNCHANGED rlock
       ELSE /\ proc' = [proc EXCEPT ![s] =
                           Call("create_participation", "cp_check", 0, 0,
                                "NONE", "NONE", k, {})]
            /\ rlock' = s
    /\ UNCHANGED <<dbvars, plock, keep, payvars, drawvars>>

\* available_tickets = get_available_tickets_count_sync(raffle)
CreateCheck(s) ==
    /\ proc[s].pc = "cp_check"
    /\ IF proc[s].k > get_available_tickets_count_sync
       THEN /\ proc' = Finish(s, "NotEnoughTicketsError")
            /\ rlock' = IF rlock = s THEN 0 ELSE rlock
       ELSE /\ proc' = Goto(s, "cp_insert")
            /\ UNCHANGED rlock
    /\ UNCHANGED <<dbvars, plock, keep, payvars, drawvars>>

\* Participation.objects.create(...), commit; the public operation then
\* schedules cleanup_expired_participation for the new id.
CreateInsert(s) ==
    /\ proc[s].pc = "cp_insert"
    /\ parts' = parts \cup {nextId}
    /\ count' = [count EXCEPT ![nextId] = proc[s].k]
    /\ nextId' = nextId + 1
    /\ jobs' = jobs \cup {nextId}
    /\ rlock' = IF rlock = s THEN 0 ELSE rlock
    /\ proc' = [Finish(s, "ok") EXCEPT ![s].p = IF keep THEN nextId ELSE 0]
    /\ UNCHANGED <<raffle, pay, payPk, tickets, plock, keep, payvars, drawvars>>

\* ---------------------------------------------------------- create_payment
\* payments/payment/services_sync.py: create_payment_sync, the Payment row
\* of a participation that has none (OneToOneField) is inserted PENDING.
CreatePayment(p) ==
    /\ p \in parts
    /\ pay[p] = "NONE"
    /\ payPk[p] < MaxPayGen
    /\ pay' = [pay EXCEPT ![p] = "PENDING"]
    /\ payPk' = [payPk EXCEPT ![p] = payPk[p] + 1]
    /\ UNCHANGED <<raffle, parts, count, nextId, tickets, jobs, rlock, plock,
                   proc, keep, payvars, drawvars>>

\* ------------------------------------------------------- approve_payment
\* Payment.objects.select_for_update().get(pk=payment.pk) waits for the lock
PaymentLockFree(p) == plock[p] = 0

Unlock(s, p) == [plock EXCEPT ![p] = IF plock[p] = s THEN 0 ELSE plock[p]]

\* A caller obtains a Payment object and calls approve_payment(payment).
ApproveCall(s, p) ==
    /\ proc[s].op = "idle"
    /\ p \in parts /\ pay[p] # "NONE"
    /\ proc' = [proc EXCEPT ![s] =
                  Call("approve_payment", "ap_begin", p, payPk[p], pay[p],
                       "APPROVED", 0, {})]
    /\ UNCHANGED <<dbvars, rlock, plock, keep, payvars, drawvars>>

\* PaymentAdmin._approve_action: payment.status is the status the changelist
\* query read; approve_payment is called unless it is APPROVED.
ApproveActionRead(s, p) ==
    /\ proc[s].op = "idle"
    /\ p \in parts /\ pay[p] # "NONE"
    /\ proc' = IF pay[p] = "APPROVED"
               THEN Finish(s, "ok")
               ELSE [proc EXCEPT ![s] =
                       Call("_approve_action", "ap_begin", p, payPk[p], pay[p],
                            "APPROVED", 0, {})]
    /\ UNCHANGED <<dbvars, rlock, plock, keep, payvars, drawvars>>

\* approve_payment up to the sample: lock the Payment row; with tickets
\* already there only the status and audit fields are saved; otherwise
\* assign_tickets_to_participation reads the raffle's numbers and samples.
ApproveBegin(s) ==
    LET p == proc[s].p IN
    /\ proc[s].pc = "ap_begin"
    /\ IF ~PaymentExists(p, proc[s].gen)
       THEN /\ proc' = Finish(s, "DoesNotExist")
            /\ UNCHANGED <<pay, plock>>
       ELSE /\ PaymentLockFree(p)
            /\ IF HasTickets(p)
               THEN /\ pay' = [pay EXCEPT ![p] = "APPROVED"]
                    /\ proc' = Finish(s, "ok")
                    /\ UNCHANGED plock
               ELSE IF Cardinality(available_numbers) < count[p]
               THEN /\ proc' = Finish(s, "ValueError")
                    /\ UNCHANGED <<pay, plock>>
               ELSE /\ \E chosen \in Samples(available_numbers, count[p]) :
                          proc' = [proc EXCEPT ![s].pc = "ap_insert",
                                               ![s].chosen = chosen]
                    /\ plock' = [plock EXCEPT ![p] = s]
                    /\ UNCHANGED pay
    /\ UNCHANGED <<raffle, parts, count, nextId, payPk, tickets, jobs, rlock, keep, payvars, drawvars>>

\* Ticket.objects.bulk_create(tickets_to_create), payment.save(), commit;
\* an IntegrityError rolls the transaction back.
ApproveInsert(s) ==
    LET p == proc[s].p IN
    /\ proc[s].pc = "ap_insert"
    /\ IF UniqueViolation(proc[s].chosen)
       THEN /\ proc' = Finish(s, "IntegrityError")
            /\ UNCHANGED <<pay, tickets>>
       ELSE /\ tickets' = tickets \cup NewTickets(p, proc[s].chosen)
            /\ pay' = [pay EXCEPT ![p] = "APPROVED"]
            /\ proc' = Finish(s, "ok")
    /\ plock' = Unlock(s, p)
    /\ UNCHANGED <<raffle, parts, count, nextId, payPk, jobs, rlock, keep, payvars, drawvars>>

\* ------------------------------------------------ revert_approved_payment
RevokeNothing(p) == tickets

RevokeEveryTicket(p) == {}

\* tickets/services.py: revoke_tickets_from_participation
revoke_tickets_from_participation(p) == tickets \ TicketsOf(p)

\* revert_approved_payment(payment): lock the Payment row, delete the
\* participation's tickets, commit.  The status is left as it is.
RevertCall(p) ==
    /\ p \in parts /\ pay[p] # "NONE"
    /\ PaymentLockFree(p)
    /\ tickets' = revoke_tickets_from_participation(p)
    /\ UNCHANGED <<raffle, parts, count, nextId, pay, payPk, jobs, rlock, plock,
                   proc, keep, payvars, drawvars>>

\* ------------------------------------------------- PaymentAdmin.save_model
\* The change form is submitted with a new status; form.initial holds the
\* status read when the request loaded the object.
SaveModelRead(s, p, new) ==
    /\ proc[s].op = "idle"
    /\ p \in parts /\ pay[p] # "NONE"
    /\ proc' = [proc EXCEPT ![s] =
                  Call("save_model", "sm_save", p, payPk[p], pay[p], new, 0, {})]
    /\ UNCHANGED <<dbvars, rlock, plock, keep, payvars, drawvars>>

\* super().save_model writes the row (an UPDATE; an INSERT when the row is
\* gone), then the business action of the transition runs in the same
\* transaction; an exception of the action is caught and the request's
\* transaction commits what was written before it.
SaveModelSave(s) ==
    LET p == proc[s].p
        orig == proc[s].st
        new == proc[s].new
        gone == ~PaymentExists(p, proc[s].gen)
    IN
    /\ proc[s].pc = "sm_save"
    /\ PaymentLockFree(p)
    /\ IF gone /\ (p \notin parts \/ pay[p] # "NONE")
       THEN \* the INSERT breaks the foreign key or the one-to-one constraint
            /\ proc' = Finish(s, "IntegrityError")
            /\ UNCHANGED <<pay, tickets, plock>>
       ELSE IF orig = new
       THEN /\ pay' = [pay EXCEPT ![p] = new]
            /\ proc' = Finish(s, "ok")
            /\ UNCHANGED <<tickets, plock>>
       ELSE IF new = "APPROVED"
       THEN IF HasTickets(p)
            THEN /\ pay' = [pay EXCEPT ![p] = "APPROVED"]
                 /\ proc' = Finish(s, "ok")
                 /\ UNCHANGED <<tickets, plock>>
            ELSE IF Cardinality(available_numbers) < count[p]
            THEN /\ pay' = [pay EXCEPT ![p] = new]
                 /\ proc' = Finish(s, "ValueError caught")
                 /\ UNCHANGED <<tickets, plock>>
            ELSE IF gone
            THEN /\ \E chosen \in Samples(available_numbers, count[p]) :
                       tickets' = tickets \cup NewTickets(p, chosen)
                 /\ pay' = [pay EXCEPT ![p] = "APPROVED"]
                 /\ proc' = Finish(s, "ok")
                 /\ UNCHANGED plock
            ELSE /\ \E chosen \in Samples(available_numbers, count[p]) :
                       proc' = [proc EXCEPT ![s].pc = "sm_insert",
                                            ![s].chosen = chosen]
                 /\ plock' = [plock EXCEPT ![p] = s]
                 /\ UNCHANGED <<pay, tickets>>
       ELSE IF orig = "APPROVED"
       THEN /\ tickets' = revoke_tickets_from_participation(p)
            /\ pay' = [pay EXCEPT ![p] = new]
            /\ proc' = Finish(s, "ok")
            /\ UNCHANGED plock
       ELSE /\ pay' = [pay EXCEPT ![p] = new]
            /\ proc' = Finish(s, "ok")
            /\ UNCHANGED <<tickets, plock>>
    /\ UNCHANGED <<raffle, parts, count, nextId, payPk, jobs, rlock, keep, payvars, drawvars>>

\* approve_payment inside save_model: bulk_create and payment.save(); an
\* IntegrityError undoes approve_payment's savepoint only, and the status
\* written by super().save_model is committed.
SaveModelInsert(s) ==
    LET p == proc[s].p IN
    /\ proc[s].pc = "sm_insert"
    /\ IF UniqueViolation(proc[s].chosen)
       THEN /\ proc' = Finish(s, "IntegrityError caught")
            /\ UNCHANGED tickets
       ELSE /\ tickets' = tickets \cup NewTickets(p, proc[s].chosen)
            /\ proc' = Finish(s, "ok")
    /\ pay' = [pay EXCEPT ![p] = "APPROVED"]
    /\ plock' = Unlock(s, p)
    /\ UNCHANGED <<raffle, parts, count, nextId, payPk, jobs, rlock, keep, payvars, drawvars>>

\* --------------------------- PaymentAdmin._reject_action, _delete_action
\* The bulk action holds the Payment object its changelist query read.
RejectActionRead(s, p) ==
    /\ proc[s].op = "idle"
    /\ p \in parts /\ pay[p] # "NONE"
    /\ proc' = IF pay[p] = "REJECTED"
               THEN Finish(s, "ok")
               ELSE [proc EXCEPT ![s] =
                       Call("_reject_action",
                            IF pay[p] = "APPROVED" THEN "rj_revert" ELSE "rj_save",
                            p, payPk[p], pay[p], "REJECTED", 0, {})]
    /\ UNCHANGED <<dbvars, rlock, plock, keep, payvars, drawvars>>

DeleteActionRead(s, p) ==
    /\ proc[s].op = "idle"
    /\ p \in parts /\ pay[p] # "NONE"
    /\ proc' = [proc EXCEPT ![s] =
                  Call("_delete_action",
                       IF pay[p] = "APPROVED" THEN "dl_revert" ELSE "dl_delete",
                       p, payPk[p], pay[p], "NONE", 0, {})]
    /\ UNCHANGED <<dbvars, rlock, plock, keep, payvars, drawvars>>

\* revert_approved_payment(payment) called by the reject or delete action
ActionRevert(s) ==
    LET p == proc[s].p IN
    /\ proc[s].pc \in {"rj_revert", "dl_revert"}
    /\ IF ~PaymentExists(p, proc[s].gen)
       THEN /\ proc' = Finish(s, "DoesNotExist")
            /\ UNCHANGED tickets
       ELSE /\ PaymentLockFree(p)
            /\ tickets' = revoke_tickets_from_participation(p)
            /\ proc' = Goto(s, IF proc[s].pc = "rj_revert" THEN "rj_save"
                                                            ELSE "dl_delete")
    /\ UNCHANGED <<raffle, parts, count, nextId, pay, payPk, jobs, rlock, plock, keep, payvars, drawvars>>

\* payment.status = "REJECTED"; payment.save(update_fields=[...])
RejectSave(s) ==
    LET p == proc[s].p IN
    /\ proc[s].pc = "rj_save"
    /\ IF ~PaymentExists(p, proc[s].gen)
       THEN /\ proc' = Finish(s, "DatabaseError")
            /\ UNCHANGED pay
       ELSE /\ PaymentLockFree(p)
            /\ pay' = [pay EXCEPT ![p] = "REJECTED"]
            /\ proc' = Finish(s, "ok")
    /\ UNCHANGED <<raffle, parts, count, nextId, payPk, tickets, jobs, rlock, plock, keep, payvars, drawvars>>

\* payment.delete()
DeleteRow(s) ==
    LET p == proc[s].p IN
    /\ proc[s].pc = "dl_delete"
    /\ IF ~PaymentExists(p, proc[s].gen)
       THEN UNCHANGED <<pay, payrows>>
       ELSE /\ PaymentLockFree(p)
            /\ pay' = [pay EXCEPT ![p] = "NONE"]
            /\ payrows' = RowsWithout(p)
    /\ proc' = Finish(s, "ok")
    /\ UNCHANGED <<raffle, parts, count, nextId, payPk, tickets, jobs, rlock, plock, keep, ratevars, drawvars>>

\* -------------------------------------- cleanup_expired_participation
\* Payment.objects.filter(participation_id=participation_id).aexists()
PaymentNeverSeen(p) == FALSE

PaymentAlwaysSeen(p) == TRUE

\* Payment.objects.filter(participation_id=participation_id).aexists()
payment_exists(p) == p \in parts /\ pay[p] # "NONE"

ReaperCheck(s, p) ==
    /\ proc[s].op = "idle"
    /\ p \in jobs
    /\ jobs' = jobs \ {p}
    /\ proc' = IF payment_exists(p)
               THEN Finish(s, "ok")
               ELSE [proc EXCEPT ![s] =
                       Call("cleanup", "rp_delete", p, 0, "NONE", "NONE", 0, {})]
    /\ UNCHANGED <<raffle, parts, count, nextId, pay, payPk, tickets, rlock, plock, keep, payvars, drawvars>>

\* Participation.objects.aget(pk=participation_id); participation.adelete():
\* the Payment and the Tickets of the participation go with it (CASCADE).
ReaperDelete(s) ==
    LET p == proc[s].p IN
    /\ proc[s].pc = "rp_delete"
    /\ IF p \notin parts
       THEN UNCHANGED <<parts, pay, payrows, tickets, prize>>
       ELSE /\ PaymentLockFree(p)
            /\ parts' = parts \ {p}
            /\ pay' = [pay EXCEPT ![p] = "NONE"]
            /\ payrows' = RowsWithout(p)
            /\ tickets' = tickets \ TicketsOf(p)
            /\ prize' = WinnerSetNull(p)
    /\ proc' = Finish(s, "ok")
    /\ UNCHANGED <<raffle, count, nextId, payPk, jobs, rlock, plock, keep, ratevars,
                   draws, clock, completed, dcall>>

\* ------------------------------------------------------------------ Spec
AdminStatus == {"PENDING", "APPROVED", "REJECTED"}

Next ==
    \/ \E s \in Slots, k \in 1..MaxCount : CreateLock(s, k)
    \/ \E s \in Slots : CreateCheck(s)
    \/ \E s \in Slots : CreateInsert(s)
    \/ \E p \in PIDs : CreatePayment(p)
    \/ \E s \in Slots, p \in PIDs : ApproveActionRead(s, p)
    \/ \E s \in Slots : ApproveBegin(s)
    \/ \E s \in Slots : ApproveInsert(s)
    \/ \E s \in Slots, p \in PIDs, new \in AdminStatus : SaveModelRead(s, p, new)
    \/ \E s \in Slots : SaveModelSave(s)
    \/ \E s \in Slots : SaveModelInsert(s)
    \/ \E s \in Slots, p \in PIDs : RejectActionRead(s, p)
    \/ \E s \in Slots, p \in PIDs : DeleteActionRead(s, p)
    \/ \E s \in Slots : ActionRevert(s)
    \/ \E s \in Slots : RejectSave(s)
    \/ \E s \in Slots : DeleteRow(s)
    \/ \E s \in Slots, p \in PIDs : ReaperCheck(s, p)
    \/ \E s \in Slots : ReaperDelete(s)

Spec == Init /\ [][Next]_vars

\* ------------------------------------------------------ a database at rest
\* The rows S of a raffle that has been running, no call in progress: each
\* participation has a ticket_count and a payment of any status or none;
\* those that are not REJECTED fit in the raffle; only a participation with
\* an APPROVED payment has Tickets, ticket_count of them (or none, after
\* revert_approved_payment); ticket numbers are unique in the raffle.
ExistingRows(S) ==
    /\ parts = S
    /\ count \in [PIDs -> 0..MaxCount]
    /\ \A p \in PIDs : (count[p] = 0) <=> (p \notin S)
    /\ pay \in [PIDs -> {"NONE", "PENDING", "APPROVED", "REJECTED"}]
    /\ \A p \in PIDs : p \notin S => pay[p] = "NONE"
    /\ SumCount(NotRejected) <= TotalTickets
    /\ payPk = [p \in PIDs |-> IF pay[p] = "NONE" THEN 0 ELSE 1]
    /\ tickets \in SUBSET [n : Numbers, p : S]
    /\ \A t1, t2 \in tickets : t1.n = t2.n => t1 = t2
    /\ \A p \in S : Cardinality(TicketsOf(p)) \in {0, count[p]}
    /\ \A p \in S : HasTickets(p) => pay[p] = "APPROVED"
    /\ jobs = {}

ExistingDB(S) ==
    /\ raffle = [status |-> "IN_PROGRESS", is_active |-> TRUE]
    /\ ExistingRows(S)

\* ------------------------------------- two buyers race for the last tickets
InitRace ==
    /\ \E S \in SUBSET PreIDs : ExistingDB(S)
    /\ nextId = 1
    /\ NoCalls
    /\ keep = TRUE

NextRace ==
    \/ \E s \in Slots, k \in 1..MaxCount : CreateLock(s, k)
    \/ \E s \in Slots : CreateCheck(s)
    \/ \E s \in Slots : CreateInsert(s)

SpecRace == InitRace /\ [][NextRace]_vars

\* ----------------------- create_participation on a raffle in any condition
InitCreate ==
    /\ raffle \in RaffleStates
    /\ \E S \in SUBSET PreIDs : ExistingRows(S)
    /\ nextId = 1
    /\ NoCalls
    /\ keep = TRUE

NextCreate ==
    \/ \E s \in Slots, k \in 1..MaxCount : CreateLock(s, k)
    \/ \E s \in Slots : CreateCheck(s)
    \/ \E s \in Slots : CreateInsert(s)

SpecCreate == InitCreate /\ [][NextCreate]_vars

\* ------------------------------------- approve_payment called again and again
InitApprove ==
    /\ ExistingDB(1..MaxParts)
    /\ nextId = MaxParts + 1
    /\ NoCalls
    /\ keep = TRUE

NextApprove ==
    \/ \E s \in Slots, p \in PIDs : ApproveCall(s, p)
    \/ \E s \in Slots : ApproveBegin(s)
    \/ \E s \in Slots : ApproveInsert(s)

SpecApprove == InitApprove /\ [][NextApprove]_vars

\* --------------------------- revert_approved_payment next to the approvals
\* A caller holds a Payment and calls revert_approved_payment(payment).
RevertStart(s, p) ==
    /\ proc[s].op = "idle"
    /\ p \in parts /\ pay[p] # "NONE"
    /\ proc' = [proc EXCEPT ![s] =
                  Call("revert_approved_payment", "rv_run", p, payPk[p], pay[p],
                       "NONE", 0, {})]
    /\ UNCHANGED <<dbvars, rlock, plock, keep, payvars, drawvars>>

\* revert_approved_payment: Payment.objects.select_for_update().get(pk=...),
\* revoke_tickets_from_participation(payment.participation), commit.
RevertRun(s) ==
    LET p == proc[s].p IN
    /\ proc[s].pc = "rv_run"
    /\ IF ~PaymentExists(p, proc[s].gen)
       THEN /\ proc' = Finish(s, "DoesNotExist")
            /\ UNCHANGED tickets
       ELSE /\ PaymentLockFree(p)
            /\ tickets' = revoke_tickets_from_participation(p)
            /\ proc' = Finish(s, "ok")
    /\ UNCHANGED <<raffle, parts, count, nextId, pay, payPk, jobs, rlock, plock, keep, payvars, drawvars>>

InitRevert ==
    /\ ExistingDB(1..MaxParts)
    /\ nextId = MaxParts + 1
    /\ NoCalls
    /\ keep = TRUE

NextRevert ==
    \/ \E s \in Slots, p \in PIDs : ApproveCall(s, p)
    \/ \E s \in Slots : ApproveBegin(s)
    \/ \E s \in Slots : ApproveInsert(s)
    \/ \E s \in Slots, p \in PIDs : RevertStart(s, p)
    \/ \E s \in Slots : RevertRun(s)

SpecRevert == InitRevert /\ [][NextRevert]_vars

\* ----------------------------------------------------------- draw resolver
\* Ticket.objects.get(raffle=raffle, ticket_number=n).participation,
\* 0 for Ticket.DoesNotExist
TicketOwner(n) ==
    IF \E t \in tickets : t.n = n
    THEN (CHOOSE t \in tickets : t.n = n).p
    ELSE 0

\* Room for the Draw row that a call starting now may create.
CanCreate(s) ==
    NextDrawId + Cardinality({t \in Slots \ {s} : ~DFree(t)}) <= MaxDraws

StatusIgnored(dr) == TRUE

\* process_draw_result: draw.status != "SCHEDULED" raises
IsScheduled(dr) == dr.status = "SCHEDULED"

SameDay(dr) == dr.time

\* process_draw_result: new_draw_time = draw.draw_time + timedelta(days=1)
new_draw_time(dr) == dr.time + 1

DeliveredIgnored(pz) == FALSE

\* revoke_prize_assignment: prize.is_delivered raises
DeliveredGuard(pz) == is_delivered(pz)

\* The caller fetches Draw d and calls process_draw_result(draw, wn); any
\* positive integer can be the number, TotalTickets stands for those that
\* are no ticket number of the raffle.
ProcessLoad(s, d, wn) ==
    /\ DFree(s)
    /\ d \in DrawsOfPrize
    /\ draws[d].time <= MaxDay
    /\ ~IsScheduled(draws[d]) \/ CanCreate(s)
    /\ dcall' = [dcall EXCEPT ![s] =
                   [op |-> "process", pc |-> "pd_read", d |-> d,
                    dr |-> draws[d], wn |-> wn, pz |-> NoWinner, tk |-> 0,
                    late |-> d \in completed, ret |-> "none",
                    why |-> "none"]]
    /\ UNCHANGED <<dbvars, rlock, plock, proc, keep, payvars, prize, draws, clock,
                   completed>>

\* process_draw_result up to the Ticket lookup: the status check on the
\* draw it was given, prize = draw.prize read from the database, the
\* winner check, the lookup of the winning ticket.
ProcessRead(s) ==
    LET c == dcall[s] IN
    /\ c.pc = "pd_read"
    /\ dcall' = IF ~IsScheduled(c.dr)
                THEN DFinish(s, "DrawProcessingError", "not_scheduled")
                ELSE IF prize.winner # 0
                THEN DFinish(s, "DrawProcessingError", "already_assigned")
                ELSE [dcall EXCEPT ![s].pc = "pd_write", ![s].pz = prize,
                                   ![s].tk = TicketOwner(c.wn)]
    /\ UNCHANGED <<dbvars, rlock, plock, proc, keep, payvars, prize, draws, clock,
                   completed>>

\* process_draw_result from the lookup to the commit: prize.save() and
\* draw.save() write every field of the objects the call holds; without a
\* ticket the draw is rolled over and Draw.objects.create adds the next.
ProcessWrite(s) ==
    LET c == dcall[s] IN
    /\ c.pc = "pd_write"
    /\ IF c.tk # 0 /\ c.tk \notin parts
       THEN \* the winner's Participation row is gone: prize.save() fails on
            \* the foreign key and the transaction is rolled back
            /\ dcall' = DFinish(s, "IntegrityError", "winner_participation")
            /\ UNCHANGED <<prize, draws, completed>>
       ELSE IF c.tk # 0
       THEN /\ prize' = [c.pz EXCEPT !.winner = c.tk, !.ticket = c.wn]
            /\ draws' = [draws EXCEPT ![c.d] =
                           [c.dr EXCEPT !.status = "COMPLETED", !.wn = c.wn]]
            /\ completed' = completed \cup {c.d}
            /\ dcall' = DFinish(s, "ok", "winner")
       ELSE /\ draws' = [draws EXCEPT
                           ![c.d] = [c.dr EXCEPT !.status = "ROLLED_OVER",
                                                 !.wn = c.wn],
                           ![NextDrawId] = ScheduledDraw(new_draw_time(c.dr))]
            /\ dcall' = DFinish(s, "ok", "rollover")
            /\ UNCHANGED <<prize, completed>>
    /\ UNCHANGED <<dbvars, rlock, plock, proc, keep, payvars, clock>>

\* The caller fetches the Prize and calls revoke_prize_assignment(prize).
RevokeLoad(s) ==
    /\ DFree(s)
    /\ CanCreate(s) \/ prize.winner = 0 \/ is_delivered(prize)
    /\ dcall' = [dcall EXCEPT ![s] =
                   [DIdle EXCEPT !.op = "revoke", !.pc = "rv_read",
                                 !.pz = prize]]
    /\ UNCHANGED <<dbvars, rlock, plock, proc, keep, payvars, prize, draws, clock,
                   completed>>

\* Draw.objects.filter(prize=prize, status="COMPLETED").order_by("-draw_time")
CompletedDraws == {d \in DrawsOfPrize : draws[d].status = "COMPLETED"}

\* .first(): a COMPLETED draw of the latest draw_time
LatestCompleted ==
    {d \in CompletedDraws :
        \A e \in CompletedDraws : draws[e].time <= draws[d].time}

\* revoke_prize_assignment, the validation and the query for the draw
RevokeRead(s) ==
    LET c == dcall[s] IN
    /\ c.pc = "rv_read"
    /\ IF c.pz.winner = 0
       THEN dcall' = DFinish(s, "RevokePrizeError", "no_winner")
       ELSE IF DeliveredGuard(c.pz)
       THEN dcall' = DFinish(s, "RevokePrizeError", "delivered")
       ELSE IF CompletedDraws = {}
       THEN dcall' = DFinish(s, "RevokePrizeError", "no_completed_draw")
       ELSE \E d \in LatestCompleted :
                dcall' = [dcall EXCEPT ![s].pc = "rv_write", ![s].d = d,
                                       ![s].dr = draws[d]]
    /\ UNCHANGED <<dbvars, rlock, plock, proc, keep, payvars, prize, draws, clock,
                   completed>>

\* revoke_prize_assignment, the writes: the prize is reset, the completed
\* draw becomes ROLLED_OVER, a new draw is created for now + one day.
RevokeWrite(s) ==
    LET c == dcall[s] IN
    /\ c.pc = "rv_write"
    /\ \E now \in clock..MaxDay :
        /\ clock' = now
        /\ draws' = [draws EXCEPT
                       ![c.d] = [c.dr EXCEPT !.status = "ROLLED_OVER"],
                       ![NextDrawId] = ScheduledDraw(now + 1)]
    /\ prize' = [c.pz EXCEPT !.winner = 0, !.ticket = NullNumber]
    /\ dcall' = DFinish(s, "ok", "revoked")
    /\ UNCHANGED <<dbvars, rlock, plock, proc, keep, payvars, completed>>

\* PrizeAdmin change form of a prize with a winner and no delivery yet
\* (delivered_at is read-only otherwise): the object is loaded ...
DeliverLoad(s) ==
    /\ DFree(s)
    /\ prize.winner # 0
    /\ ~is_delivered(prize)
    /\ dcall' = [dcall EXCEPT ![s] =
                   [DIdle EXCEPT !.op = "deliver", !.pc = "dv_save",
                                 !.pz = prize]]
    /\ UNCHANGED <<dbvars, rlock, plock, proc, keep, payvars, prize, draws, clock,
                   completed>>

\* ... and PrizeAdmin.save_model saves it with delivered_at set.
DeliverSave(s) ==
    /\ dcall[s].pc = "dv_save"
    /\ prize' = [dcall[s].pz EXCEPT !.delivered = TRUE]
    /\ dcall' = DFinish(s, "ok", "saved")
    /\ UNCHANGED <<dbvars, rlock, plock, proc, keep, payvars, draws, clock, completed>>

\* The raffle's participations are paid and approved and hold their tickets,
\* as approve_payment left them; the prize has its first draw.
InitDraw ==
    /\ ExistingDB(1..MaxParts)
    /\ \A p \in parts : pay[p] = "APPROVED" /\ HasTickets(p)
    /\ nextId = MaxParts + 1
    /\ NoCalls
    /\ keep = FALSE

NextDraw ==
    \/ \E s \in Slots, d \in DrawIds, wn \in 0..TotalTickets : ProcessLoad(s, d, wn)
    \/ \E s \in Slots : ProcessRead(s)
    \/ \E s \in Slots : ProcessWrite(s)
    \/ \E s \in Slots : RevokeLoad(s)
    \/ \E s \in Slots : RevokeRead(s)
    \/ \E s \in Slots : RevokeWrite(s)
    \/ \E s \in Slots : DeliverLoad(s)
    \/ \E s \in Slots : DeliverSave(s)

SpecDraw == InitDraw /\ [][NextDraw]_vars

\* ------------------------------------- the admin's deletions around a prize
DeletedDraw == [status |-> "DELETED", wn |-> NullNumber, time |-> 0]

\* ParticipationAdmin, delete: the Participation goes with its Payment and
\* its Tickets (CASCADE); a prize it has won loses winner_participation only.
AdminDeleteParticipation(p) ==
    /\ p \in parts
    /\ parts' = parts \ {p}
    /\ pay' = [pay EXCEPT ![p] = "NONE"]
    /\ payrows' = RowsWithout(p)
    /\ tickets' = tickets \ TicketsOf(p)
    /\ prize' = WinnerSetNull(p)
    /\ UNCHANGED <<raffle, count, nextId, payPk, jobs, rlock, plock, proc, keep, ratevars,
                   draws, clock, completed, dcall>>

\* DrawAdmin, delete: the Draw row is deleted, the prize is not touched.
AdminDeleteDraw(d) ==
    /\ d \in DrawsOfPrize
    /\ draws' = [draws EXCEPT ![d] = DeletedDraw]
    /\ UNCHANGED <<dbvars, rlock, plock, proc, keep, payvars, prize, clock, completed,
                   dcall>>

\* PrizeAdmin change form with draw d of the inline marked for deletion: the
\* prize and the draw are loaded ...
InlineDeleteLoad(s, d) ==
    /\ DFree(s)
    /\ d \in DrawsOfPrize
    /\ dcall' = [dcall EXCEPT ![s] =
                   [DIdle EXCEPT !.op = "inline_delete", !.pc = "in_save",
                                 !.d = d, !.dr = draws[d], !.pz = prize]]
    /\ UNCHANGED <<dbvars, rlock, plock, proc, keep, payvars, prize, draws, clock,
                   completed>>

\* PrizeAdmin.save_formset, step 1: the draw that gave the prize its winner
draw_assigned_winner(pz, dr) ==
    dr.status = "COMPLETED" /\ pz.winner # 0 /\ pz.ticket = dr.wn

\* ... PrizeAdmin.save_model saves the prize as loaded, save_formset resets
\* its winner when the deleted draw assigned it, and the draw is deleted.
InlineDeleteSave(s) ==
    LET c == dcall[s] IN
    /\ c.pc = "in_save"
    /\ prize' = IF draw_assigned_winner(c.pz, c.dr)
                THEN [c.pz EXCEPT !.winner = 0, !.ticket = NullNumber]
                ELSE c.pz
    /\ draws' = [draws EXCEPT ![c.d] = DeletedDraw]
    /\ dcall' = DFinish(s, "ok", "deleted")
    /\ UNCHANGED <<dbvars, rlock, plock, proc, keep, payvars, clock, completed>>

InitDrawAdmin == InitDraw

\* one administrator, one request at a time
OneSlot == {CHOOSE s \in Slots : TRUE}

NextDrawAdmin ==
    \/ \E s \in OneSlot, d \in DrawIds, wn \in 0..TotalTickets : ProcessLoad(s, d, wn)
    \/ \E s \in OneSlot : ProcessRead(s)
    \/ \E s \in OneSlot : ProcessWrite(s)
    \/ \E s \in OneSlot : RevokeLoad(s)
    \/ \E s \in OneSlot : RevokeRead(s)
    \/ \E s \in OneSlot : RevokeWrite(s)
    \/ \E p \in PIDs : AdminDeleteParticipation(p)
    \/ \E d \in DrawIds : AdminDeleteDraw(d)
    \/ \E s \in OneSlot, d \in DrawIds : InlineDeleteLoad(s, d)
    \/ \E s \in OneSlot : InlineDeleteSave(s)

SpecDrawAdmin == InitDrawAdmin /\ [][NextDrawAdmin]_vars

\* ------------------------------- a payment reverted after the prize is won
\* One administrator resolves the draws; payments of the raffle are reverted.
NextWinner ==
    \/ \E s \in OneSlot, d \in DrawIds, wn \in 0..TotalTickets : ProcessLoad(s, d, wn)
    \/ \E s \in OneSlot : ProcessRead(s)
    \/ \E s \in OneSlot : ProcessWrite(s)
    \/ \E s \in Slots, p \in PIDs : RevertStart(s, p)
    \/ \E s \in Slots : RevertRun(s)

SpecWinner == InitDraw /\ [][NextWinner]_vars

\* ------------------------------------ draws resolved and prizes revoked, in turn
\* One call of process_draw_result or revoke_prize_assignment at a time.
NextResolve ==
    \/ \E s \in OneSlot, d \in DrawIds, wn \in 0..TotalTickets : ProcessLoad(s, d, wn)
    \/ \E s \in OneSlot : ProcessRead(s)
    \/ \E s \in OneSlot : ProcessWrite(s)
    \/ \E s \in OneSlot : RevokeLoad(s)
    \/ \E s \in OneSlot : RevokeRead(s)
    \/ \E s \in OneSlot : RevokeWrite(s)

SpecResolve == InitDraw /\ [][NextResolve]_vars

\* ----------------------------- the reaper run for any id, again and again
\* cleanup_expired_participation(p) for any participation_id, whether the
\* row exists or not: the check for a Payment; the slot keeps the status the
\* run found.
ReaperCall(s, p) ==
    /\ proc[s].op = "idle"
    /\ proc' = [proc EXCEPT ![s] =
                  [Call("cleanup", "rp_delete", p, 0, pay[p], "NONE", 0, {})
                     EXCEPT !.pc = IF payment_exists(p) THEN "done"
                                                        ELSE "rp_delete",
                            !.ret = IF payment_exists(p) THEN "ok" ELSE "none"]]
    /\ UNCHANGED <<dbvars, rlock, plock, keep, payvars, drawvars>>

InitReaper ==
    /\ ExistingDB(1..MaxParts)
    /\ nextId = MaxParts + 1
    /\ NoCalls
    /\ keep = TRUE

NextReaper ==
    \/ \E s \in Slots, p \in PIDs : ReaperCall(s, p)
    \/ \E s \in Slots : ReaperDelete(s)
    \/ \E p \in PIDs : CreatePayment(p)

SpecReaper == InitReaper /\ [][NextReaper]_vars

\* ---------------------------- reservations and the jobs that release them
\* The public operation creates participations and schedules their cleanup;
\* buyers may report a payment.  A request that has started runs to its end,
\* a cleanup that has started runs to its end, and the job runner runs every
\* scheduled cleanup_expired_participation job.
InitRelease ==
    /\ raffle = [status |-> "IN_PROGRESS", is_active |-> TRUE]
    /\ EmptyDB
    /\ NoCalls
    /\ keep = FALSE

NextRelease ==
    \/ \E s \in Slots, k \in 1..MaxCount : CreateLock(s, k)
    \/ \E s \in Slots : CreateCheck(s)
    \/ \E s \in Slots : CreateInsert(s)
    \/ \E p \in PIDs : CreatePayment(p)
    \/ \E s \in Slots, p \in PIDs : ReaperCheck(s, p)
    \/ \E s \in Slots : ReaperDelete(s)

RequestsFinish ==
    \A s \in Slots :
        /\ WF_vars(CreateCheck(s))
        /\ WF_vars(CreateInsert(s))
        /\ WF_vars(ReaperDelete(s))

JobsRun == \A p \in PIDs : SF_vars(\E s \in Slots : ReaperCheck(s, p))

SpecRelease == InitRelease /\ [][NextRelease]_vars /\ RequestsFinish /\ JobsRun

\* --------------------------------- the allocator called directly, in a row
\* A caller runs assign_tickets_to_participation, then
\* revoke_tickets_from_participation, then assign_tickets_to_participation
\* on one participation.
SymmetryCall(s, p) ==
    /\ proc[s].op = "idle"
    /\ p \in parts
    /\ proc' = [proc EXCEPT ![s] =
                  Call("assign_revoke_assign", "as_first", p, 0, "first",
                       "NONE", 0, {})]
    /\ UNCHANGED <<dbvars, rlock, plock, keep, payvars, drawvars>>

\* assign_tickets_to_participation(participation)
AssignCall(s) ==
    LET p == proc[s].p IN
    /\ proc[s].pc \in {"as_first", "as_again"}
    /\ IF HasTickets(p) \/ Cardinality(available_numbers) < count[p]
       THEN /\ proc' = Finish(s, "ValueError")
            /\ UNCHANGED tickets
       ELSE \E chosen \in Samples(available_numbers, count[p]) :
            /\ tickets' = tickets \cup NewTickets(p, chosen)
            /\ proc' = IF proc[s].pc = "as_first"
                       THEN [proc EXCEPT ![s].pc = "revoke", ![s].chosen = chosen]
                       ELSE [Finish(s, "ok") EXCEPT ![s].chosen = chosen]
    /\ UNCHANGED <<raffle, parts, count, nextId, pay, payPk, jobs, rlock, plock, keep, payvars, drawvars>>

\* revoke_tickets_from_participation(participation)
RevokeCall(s) ==
    /\ proc[s].pc = "revoke"
    /\ tickets' = revoke_tickets_from_participation(proc[s].p)
    /\ proc' = [proc EXCEPT ![s].pc = "as_again", ![s].st = "revoked"]
    /\ UNCHANGED <<raffle, parts, count, nextId, pay, payPk, jobs, rlock, plock, keep, payvars, drawvars>>

InitSymmetry ==
    /\ ExistingDB(1..MaxParts)
    /\ nextId = MaxParts + 1
    /\ NoCalls
    /\ keep = TRUE

NextSymmetry ==
    \/ \E s \in Slots, p \in PIDs : SymmetryCall(s, p)
    \/ \E s \in Slots : AssignCall(s)
    \/ \E s \in Slots : RevokeCall(s)

SpecSymmetry == InitSymmetry /\ [][NextSymmetry]_vars

\* ------------------------------------------ currencies.update_bcv_rate
\* The runs of one calendar day.  The cache entry's timeout (eight hours
\* after its last write) does not pass between them.
MAX_ATTEMPTS == 5
MaxScrapes == 7        \* scraper calls followed

\* today = date.today()
today == 0

\* ExchangeRate.objects.filter(date__gt=today).aexists()
future_rate_exists == \E d \in RateDays : d > today /\ rates[d] # NoRate

UFinish(s) == [ucall EXCEPT ![s] = UIdle]

\* attempt_num = await cache.aget(cache_key, 0) + 1, and the limit
UpdateRead(s) ==
    /\ ucall[s].pc = "idle"
    /\ scraped < MaxScrapes
    /\ IF attempts + 1 > MAX_ATTEMPTS
       THEN ucall' = [ucall EXCEPT ![s] = [pc |-> "stopped", n |-> attempts + 1]]
       ELSE ucall' = [ucall EXCEPT ![s] = [pc |-> "check", n |-> attempts + 1]]
    /\ UNCHANGED <<dbvars, rlock, plock, proc, keep, drawvars, pricing, rates,
                   payrows, alock, made, pcall, calc, attempts, scraped>>

\* return "Max attempts reached." / "Future rate already exists."
UpdateReturn(s) ==
    /\ ucall[s].pc = "stopped"
    /\ ucall' = UFinish(s)
    /\ UNCHANGED <<dbvars, rlock, plock, proc, keep, drawvars, pricing, rates,
                   payrows, alock, made, pcall, calc, attempts, scraped>>

\* the query for a rate dated after today
UpdateCheck(s) ==
    /\ ucall[s].pc = "check"
    /\ IF future_rate_exists
       THEN ucall' = [ucall EXCEPT ![s].pc = "stopped"]
       ELSE ucall' = [ucall EXCEPT ![s].pc = "set"]
    /\ UNCHANGED <<dbvars, rlock, plock, proc, keep, drawvars, pricing, rates,
                   payrows, alock, made, pcall, calc, attempts, scraped>>

\* await cache.aset(cache_key, attempt_num, CACHE_TIMEOUT_SECONDS)
UpdateSet(s) ==
    /\ ucall[s].pc = "set"
    /\ attempts' = ucall[s].n
    /\ ucall' = [ucall EXCEPT ![s].pc = "scrape"]
    /\ UNCHANGED <<dbvars, rlock, plock, proc, keep, drawvars, pricing, rates,
                   payrows, alock, made, pcall, calc, scraped>>

\* scraper.get_processed_data() and what the run does with the data: no
\* page (NullDate), a date that is not after today, or no USD rate (NoRate)
\* end the attempt; otherwise aget_or_create(date=rate_date, ...).
UpdateScrape(s) ==
    /\ ucall[s].pc = "scrape"
    /\ scraped' = scraped + 1
    /\ \E rate_date \in RateDays \cup {NullDate}, usd_rate \in RateValues \cup {NoRate} :
          IF rate_date = NullDate \/ rate_date <= today \/ usd_rate = NoRate
          THEN UNCHANGED rates
          ELSE IF rates[rate_date] = NoRate
          THEN rates' = [rates EXCEPT ![rate_date] = usd_rate]
          ELSE UNCHANGED rates
    /\ ucall' = UFinish(s)
    /\ UNCHANGED <<dbvars, rlock, plock, proc, keep, drawvars, pricing,
                   payrows, alock, made, pcall, calc, attempts>>

InitRate ==
    /\ raffle = [status |-> "IN_PROGRESS", is_active |-> TRUE]
    /\ EmptyDB
    /\ rlock = 0
    /\ plock = [p \in PIDs |-> 0]
    /\ proc = [s \in Slots |-> Idle]
    /\ keep = TRUE
    /\ DrawInit
    /\ pricing = [currency |-> "USD", ticket_price |-> 1000]
    /\ rates \in [RateDays -> {NoRate} \cup RateValues]
    /\ payrows = {}
    /\ calc = NoCalc
    /\ NoPayCalls

NextRate ==
    \/ \E s \in Slots : UpdateRead(s)
    \/ \E s \in Slots : UpdateReturn(s)
    \/ \E s \in Slots : UpdateCheck(s)
    \/ \E s \in Slots : UpdateSet(s)
    \/ \E s \in Slots : UpdateScrape(s)

SpecRate == InitRate /\ [][NextRate]_vars

\* --------------------------------- calculate_payment_amount on its inputs
InitAmount ==
    /\ raffle = [status |-> "IN_PROGRESS", is_active |-> TRUE]
    /\ EmptyDB
    /\ rlock = 0
    /\ plock = [p \in PIDs |-> 0]
    /\ proc = [s \in Slots |-> Idle]
    /\ keep = TRUE
    /\ DrawInit
    /\ \E c \in Currencies : pricing \in [currency : {c}, ticket_price : PricesIn(c)]
    /\ rates \in [RateDays -> {NoRate} \cup RateValues]
    /\ payrows = {}
    /\ NoPayCalls
    /\ calc \in [pc : {"in"}, cnt : 1..TotalTickets, m : Methods, date : RateDays,
                 out : {NoAmount}]

NextAmount == Calculate

SpecAmount == InitAmount /\ [][NextAmount]_vars

\* ---------------------------------------------------------- create_payment
\* transaction_details["reference"] as users type it, and .lower() of it
Refs == {"a", "A", "b"}
Lower(ref) == IF ref = "A" THEN "a" ELSE ref

\* Payment._generate_hash: SHA-256 of the lower-cased signature
\* "method id:reference:YYYY-MM-DD:amount with 2 decimals", kept as the
\* parts of the signature.
_generate_hash(m, ref, date, amount) == <<m, Lower(ref), date, amount>>

PaymentRow(p, m, ref, date, out) ==
    [p |-> p, m |-> m, ref |-> ref, date |-> date, amount |-> out.amount,
     rate |-> out.rate, hash |-> _generate_hash(m, ref, date, out.amount)]

\* unique=True of Payment.payment_hash
HashNotUnique(hash) == FALSE

HashViolation(hash) == \E r \in payrows : r.hash = hash

\* the unique index of the OneToOneField Payment.participation
OneToOneIgnored(p) == FALSE

OneToOneViolation(p) == pay[p] # "NONE" \/ \E r \in payrows : r.p = p

PFinish(s, ret) == [pcall EXCEPT ![s].pc = "done", ![s].ret = ret]

\* Participation.objects.select_for_update().get(pk=participation_id)
PayLock(s, p, m, ref, date) ==
    /\ pcall[s].pc = "idle"
    /\ p \in parts
    /\ alock[p] = 0
    /\ alock' = [alock EXCEPT ![p] = s]
    /\ pcall' = [pcall EXCEPT ![s] = [PIdle EXCEPT !.pc = "calc", !.p = p, !.m = m,
                                         !.ref = ref, !.date = date]]
    /\ UNCHANGED <<dbvars, rlock, plock, proc, keep, drawvars,
                   pricing, rates, payrows, made, calc, jobvars>>

\* the payment method must be one of the raffle's, then
\* calculate_payment_amount; an exception rolls back and releases the lock
PayCalc(s) ==
    LET c == pcall[s]
        out == calculate_payment_amount(count[c.p], c.m, c.date)
    IN
    /\ c.pc = "calc"
    /\ IF out.err # ""
       THEN /\ pcall' = [PFinish(s, out.err) EXCEPT ![s].out = out]
            /\ alock' = [alock EXCEPT ![c.p] = 0]
       ELSE /\ pcall' = [pcall EXCEPT ![s].pc = "save", ![s].out = out]
            /\ UNCHANGED alock
    /\ UNCHANGED <<dbvars, rlock, plock, proc, keep, drawvars,
                   pricing, rates, payrows, made, calc, jobvars>>

\* payment.payment_hash = payment._generate_hash(); payment.save(): the
\* INSERT fails on a unique index (IntegrityError), DuplicatePaymentError is
\* raised and the transaction rolled back; else the row is in, PENDING.
PaySave(s) ==
    LET c == pcall[s]
        row == PaymentRow(c.p, c.m, c.ref, c.date, c.out)
    IN
    /\ c.pc = "save"
    /\ IF OneToOneViolation(c.p) \/ HashViolation(row.hash)
       THEN /\ pcall' = PFinish(s, "DuplicatePaymentError")
            /\ UNCHANGED <<pay, payPk, payrows, made>>
       ELSE /\ payrows' = payrows \cup {row}
            /\ pay' = [pay EXCEPT ![c.p] = "PENDING"]
            /\ payPk' = [payPk EXCEPT ![c.p] = payPk[c.p] + 1]
            /\ made' = made \cup {c.p}
            /\ pcall' = PFinish(s, "ok")
    /\ alock' = [alock EXCEPT ![c.p] = 0]
    /\ UNCHANGED <<raffle, parts, count, nextId, tickets, jobs, rlock, plock, proc,
                   keep, drawvars, pricing, rates, calc, jobvars>>

\* The Payment rows a raffle in USD has before the calls, each with a
\* report of its own: the payment of participation 1 reported reference
\* "a", that of participation 2 "b", both on day 0 with payment method 1,
\* those of the next two the same on day 1, and so on.
ExistingRow(p) ==
    PaymentRow(p, 1, IF p % 2 = 1 THEN "a" ELSE "b", (p - 1) \div 2,
               [NoAmount EXCEPT !.amount = pricing.ticket_price * count[p],
                                !.currency = "USD"])

PayDays == 0..MaxDay

InitPay ==
    /\ raffle = [status |-> "IN_PROGRESS", is_active |-> TRUE]
    /\ parts = 1..MaxParts
    /\ count = [p \in PIDs |-> IF p \in parts THEN 1 ELSE 0]
    /\ nextId = MaxParts + 1
    /\ pay \in [PIDs -> {"NONE", "PENDING", "APPROVED", "REJECTED"}]
    /\ \A p \in PIDs : p \notin parts => pay[p] = "NONE"
    /\ payPk = [p \in PIDs |-> IF pay[p] = "NONE" THEN 0 ELSE 1]
    /\ tickets = {}
    /\ jobs = {}
    /\ rlock = 0
    /\ plock = [p \in PIDs |-> 0]
    /\ proc = [s \in Slots |-> Idle]
    /\ keep = TRUE
    /\ DrawInit
    /\ pricing = [currency |-> "USD", ticket_price |-> 1000]
    /\ rates \in [RateDays -> {NoRate, 400000}]
    /\ payrows = {ExistingRow(p) : p \in {q \in parts : pay[q] # "NONE"}}
    /\ NoPayCalls
    /\ calc = NoCalc

NextPay ==
    \/ \E s \in Slots, p \in PIDs, m \in Methods, ref \in Refs, date \in PayDays :
           PayLock(s, p, m, ref, date)
    \/ \E s \in Slots : PayCalc(s)
    \/ \E s \in Slots : PaySave(s)

SpecPay == InitPay /\ [][NextPay]_vars


\* ================================================================ claims
Quiescent == \A s \in Slots : proc[s].op = "idle"

\* C1: in every reachable state no two Tickets of the raffle have the same
\* ticket_number and every ticket_number lies in [0, total_tickets).
C1_TicketNumbersUnique ==
    /\ \A t1, t2 \in tickets : t1.n = t2.n => t1 = t2
    /\ \A t \in tickets : t.n >= 0 /\ t.n < TotalTickets

\* C1 witness: two participations hold tickets and every number is taken.
C1_Witness ==
    /\ \E t1, t2 \in tickets : t1.p # t2.p
    /\ existing_ticket_numbers = Numbers

\* C2 (as claimed): once every call has returned, each participation with
\* an APPROVED payment holds exactly ticket_count Tickets, so the raffle's
\* Tickets number the sum of ticket_count over them.
C2_ApprovedHoldsCount ==
    Quiescent =>
        /\ \A p \in parts :
              pay[p] = "APPROVED" => Cardinality(TicketsOf(p)) = count[p]
        /\ Cardinality(tickets) = SumCount({p \in parts : pay[p] = "APPROVED"})

\* C3 (as claimed): once every call has returned, a participation without
\* a Payment, or with a PENDING or REJECTED one, holds no Ticket.
C3_NoTicketsUnlessApproved ==
    Quiescent =>
        \A p \in parts : pay[p] # "APPROVED" => TicketsOf(p) = {}

\* C4 (as claimed): the ticket_count of the participations whose payment is
\* absent, PENDING or APPROVED never adds up to more than total_tickets.
C4_NoOversell == SumCount(NotRejected) <= TotalTickets

Done(s) == proc[s].pc = "done"

\* Slots s1 and s2 have each run one call to the end and no other call was made.
OnlyCalls(s1, s2) ==
    /\ s1 # s2
    /\ Done(s1) /\ Done(s2)
    /\ \A s \in Slots \ {s1, s2} : proc[s].op = "idle"

\* tickets still free when the race starts: the rows there before it do not change
AvailableAtStart ==
    TotalTickets - SumCount({p \in PreIDs \cap parts : pay[p] # "REJECTED"})

\* C5: when exactly k tickets remain and two create_participation calls,
\* each for k tickets, run in any interleaving, exactly one succeeds and the
\* other fails with NotEnoughTicketsError.
C5_LastTicketsRace ==
    \A s1, s2 \in Slots :
        ( /\ OnlyCalls(s1, s2)
          /\ proc[s1].k = AvailableAtStart /\ proc[s2].k = AvailableAtStart )
        => \/ proc[s1].ret = "ok" /\ proc[s2].ret = "NotEnoughTicketsError"
           \/ proc[s2].ret = "ok" /\ proc[s1].ret = "NotEnoughTicketsError"

\* C5 witness: both calls asked for the k remaining tickets, one has its
\* participation and the other was refused.
C5_Witness ==
    \E s1, s2 \in Slots :
        /\ OnlyCalls(s1, s2)
        /\ proc[s1].k = AvailableAtStart /\ proc[s2].k = AvailableAtStart
        /\ proc[s1].ret = "ok" /\ proc[s1].p \in parts
        /\ proc[s2].ret = "NotEnoughTicketsError"

\* Two approve_payment calls on the payment of p have run, and nothing else.
TwoApprovals(s1, s2, p) ==
    /\ OnlyCalls(s1, s2)
    /\ proc[s1].p = p /\ proc[s2].p = p

\* what the two calls leave when they succeed
ApprovedOnce(s1, s2, p) ==
    /\ proc[s1].ret = "ok" /\ proc[s2].ret = "ok"
    /\ pay[p] = "APPROVED"
    /\ proc[s1].chosen = {} \/ proc[s2].chosen = {}
    /\ \A s \in {s1, s2} : proc[s].chosen # {} => NumbersOf(p) = proc[s].chosen

\* no step creates or deletes a Ticket of a participation that has Tickets
TicketsKept == \A p \in PIDs : HasTickets(p) => TicketsOf(p)' = TicketsOf(p)

C7_RevocationSymmetry ==
    \A s \in Slots :
        ( /\ Done(s) /\ proc[s].op = "assign_revoke_assign"
          /\ proc[s].st = "revoked"
          /\ \A o \in Slots \ {s} : proc[o].op = "idle" )
        => LET p == proc[s].p IN
           /\ proc[s].ret = "ok"
           /\ Cardinality(TicketsOf(p)) = count[p]
           /\ Cardinality(NumbersOf(p)) = count[p]
           /\ NumbersOf(p) \subseteq Numbers
           /\ \A q \in parts \ {p} : NumbersOf(q) \cap NumbersOf(p) = {}

\* C7 witness: the second assign returned next to another participation
\* that holds tickets.
C7_Witness ==
    \E s \in Slots :
        /\ Done(s) /\ proc[s].op = "assign_revoke_assign"
        /\ proc[s].st = "revoked" /\ proc[s].ret = "ok"
        /\ count[proc[s].p] = MaxCount
        /\ \E q \in parts \ {proc[s].p} : HasTickets(q)

\* C8: draw completion.  process_draw_result on a SCHEDULED draw of an
\* unassigned prize with the number of an existing ticket does not fail; its
\* commit sets the prize's winner to the ticket's participation and its
\* winner_ticket_number to the number, sets the draw to COMPLETED and
\* creates no Draw.  A later call on that draw (one given the draw as it is
\* after the completion), with any number, fails with DrawProcessingError
\* and changes neither the prize nor any draw.
DrawStep(s) == dcall[s].pc \in {"pd_read", "pd_write"} /\ dcall'[s] # dcall[s]

C8_Completes(s) ==
    LET c == dcall[s] IN
    /\ (c.pc = "pd_read" /\ dcall'[s] # c /\ draws[c.d].status = "SCHEDULED"
          /\ c.dr = draws[c.d] /\ prize.winner = 0 /\ TicketOwner(c.wn) # 0)
       => /\ dcall'[s].pc = "pd_write"
          /\ UNCHANGED <<prize, draws>>
    /\ (c.pc = "pd_write" /\ dcall'[s] # c /\ TicketOwner(c.wn) # 0)
       => /\ prize'.winner = TicketOwner(c.wn)
          /\ prize'.ticket = c.wn
          /\ draws'[c.d].status = "COMPLETED"
          /\ DrawsOfPrize' = DrawsOfPrize
          /\ dcall'[s].ret = "ok"

C8_LaterFails(s) ==
    (dcall[s].late /\ DrawStep(s))
    => /\ dcall'[s].pc = "done"
       /\ dcall'[s].ret = "DrawProcessingError"
       /\ UNCHANGED <<prize, draws>>

C8_DrawCompletion ==
    [][\A s \in Slots : C8_Completes(s) /\ C8_LaterFails(s)]_vars

\* A later call on a completed draw of the assigned prize has failed.
C8_Witness ==
    \E s \in Slots :
        /\ dcall[s].op = "process" /\ dcall[s].pc = "done" /\ dcall[s].late
        /\ dcall[s].ret = "DrawProcessingError"
        /\ draws[dcall[s].d].status = "COMPLETED"
        /\ prize.winner # 0
        /\ prize.winner = TicketOwner(draws[dcall[s].d].wn)

\* C9: draw rollover.  process_draw_result on a SCHEDULED draw of an
\* unassigned prize with a number that is no ticket's does not fail; its
\* commit leaves the prize as it is (the winner fields the call read are
\* null), sets the draw to ROLLED_OVER and creates exactly one Draw, which is
\* SCHEDULED at the draw's draw_time plus one day; no other draw changes.
C9_Rollover(s) ==
    LET c == dcall[s] IN
    /\ (c.pc = "pd_read" /\ dcall'[s] # c /\ draws[c.d].status = "SCHEDULED"
          /\ c.dr = draws[c.d] /\ prize.winner = 0 /\ TicketOwner(c.wn) = 0)
       => /\ dcall'[s].pc = "pd_write"
          /\ UNCHANGED <<prize, draws>>
    /\ (c.pc = "pd_write" /\ dcall'[s] # c /\ TicketOwner(c.wn) = 0)
       => /\ prize' = prize
          /\ c.pz.winner = 0 /\ c.pz.ticket = NullNumber
          /\ draws'[c.d].status = "ROLLED_OVER"
          /\ \E new \in DrawIds \ DrawsOfPrize :
                /\ DrawsOfPrize' = DrawsOfPrize \cup {new}
                /\ draws'[new] = ScheduledDraw(draws[c.d].time + 1)
          /\ \A e \in DrawsOfPrize \ {c.d} : draws'[e] = draws[e]
          /\ dcall'[s].ret = "ok"

C9_DrawRollover == [][\A s \in Slots : C9_Rollover(s)]_vars

\* A call has rolled its draw over: the prize is not assigned and the draw
\* has a SCHEDULED successor one day later.
C9_Witness ==
    \E s \in Slots :
        /\ dcall[s].op = "process" /\ dcall[s].pc = "done"
        /\ dcall[s].why = "rollover"
        /\ draws[dcall[s].d].status = "ROLLED_OVER"
        /\ prize.winner = 0
        /\ \E e \in DrawsOfPrize :
              draws[e] = ScheduledDraw(draws[dcall[s].d].time + 1)

\* C10: revoke guard.  revoke_prize_assignment fails with RevokePrizeError
\* when the prize it is given has no winner, when it is delivered, or when
\* the prize has no COMPLETED draw; a failing call changes neither the prize
\* nor any draw nor the set of draws; a call that resets the winner was
\* given a prize that is not delivered.
C10_Guard(s) ==
    LET c == dcall[s] IN
    /\ (c.pc = "rv_read" /\ dcall'[s] # c
          /\ (c.pz.winner = 0 \/ is_delivered(c.pz) \/ CompletedDraws = {}))
       => /\ dcall'[s].pc = "done"
          /\ dcall'[s].ret = "RevokePrizeError"
    /\ (c.pc \in {"rv_read", "rv_write"} /\ dcall'[s] # c
          /\ dcall'[s].ret = "RevokePrizeError")
       => UNCHANGED <<prize, draws>>
    /\ (c.pc = "rv_write" /\ dcall'[s] # c)
       => ~is_delivered(c.pz) /\ c.pz.winner # 0

C11_PrizeDrawConsistent ==
    (prize.winner # 0 /\ prize.ticket # NullNumber)
    <=> \E d \in DrawsOfPrize :
            draws[d].status = "COMPLETED" /\ draws[d].wn = prize.ticket

ScheduledDraws == {d \in DrawsOfPrize : draws[d].status = "SCHEDULED"}

\* C12 (as claimed): the prize, which starts with one SCHEDULED draw, never
\* has more than one SCHEDULED draw, whatever the interleaving of the
\* process_draw_result and revoke_prize_assignment calls.
C12_OneScheduledDraw == Cardinality(ScheduledDraws) <= 1

\* C13 (as claimed): a draw whose winning_number is set is COMPLETED.
C13_NumberOnlyWhenCompleted ==
    \A d \in DrawsOfPrize :
        draws[d].wn # NullNumber => draws[d].status = "COMPLETED"

\* C14: expiration idempotence.  A reaper run for an id with no Participation
\* row changes nothing; a run that finds a Payment (of any status) changes
\* nothing; a run that changes anything deletes the participation it was
\* given and nothing else, so two runs for the same unpaid participation
\* delete it once and the second changes nothing; every run returns
\* normally.
ReaperStep(s) ==
    /\ proc'[s] # proc[s]
    /\ proc'[s].op = "cleanup"
    /\ proc'[s].pc \in {"rp_delete", "done"}

C14_Run(s) ==
    LET p == proc'[s].p IN
    ReaperStep(s) =>
        /\ proc'[s].pc = "done" => proc'[s].ret = "ok"
        /\ p \notin parts => UNCHANGED dbvars
        /\ (proc[s].op = "idle" /\ p \in parts /\ pay[p] # "NONE")
              => UNCHANGED dbvars /\ proc'[s].pc = "done"
        /\ \/ UNCHANGED dbvars
           \/ /\ p \in parts /\ parts' = parts \ {p}
              /\ \A q \in parts' : pay'[q] = pay[q] /\ TicketsOf(q)' = TicketsOf(q)
              /\ UNCHANGED <<raffle, count, nextId>>

C14_ReaperIdempotent == [][\A s \in Slots : C14_Run(s)]_vars

\* Two runs for the same unpaid participation have returned: it is gone, the
\* others are there.
C14_Witness ==
    \E s1, s2 \in Slots :
        /\ OnlyCalls(s1, s2)
        /\ proc[s1].op = "cleanup" /\ proc[s2].op = "cleanup"
        /\ proc[s1].p = proc[s2].p
        /\ proc[s1].st = "NONE" /\ proc[s2].st = "NONE"
        /\ proc[s1].ret = "ok" /\ proc[s2].ret = "ok"
        /\ proc[s1].p \notin parts
        /\ parts = (1..MaxParts) \ {proc[s1].p}
        /\ parts # {}

\* ------------------------------------------------------------------ C15
\* num / den rounded to the nearest whole cent, a half going up
RefHalfUp(num, den) ==
    CHOOSE k \in {num \div den, (num \div den) + 1} :
        /\ 2 * (k * den - num) <= den
        /\ 2 * (num - k * den) < den

\* the amount to pay for base cents at a rate, by the raffle's currency
RefConvert(raffle_currency, base, rate) ==
    IF raffle_currency = "USD"
    THEN RefHalfUp(base * rate, RateScale)
    ELSE RefHalfUp(base * RateScale, rate)

\* calc is the application of calculate_payment_amount to (price, count,
\* method, rate) given as in cents / ten-thousandths
CalcOf(currency, price, cnt, m) ==
    /\ calc.pc = "out"
    /\ pricing = [currency |-> currency, ticket_price |-> price]
    /\ calc.cnt = cnt
    /\ calc.m = m

\* C15: calculate_payment_amount equals the reference function: with base =
\* ticket_price x ticket_count, a payment method in the raffle's currency
\* gives (base, rate None) whatever exchange rates are stored; raffle USD and
\* payment VEF gives base x rate, raffle VEF and payment USD base / rate,
\* each rounded once, half-up, to 2 decimals; 10.00 x 3 at 40.0000 gives
\* 1200.00 and 400.00 x 2 at 40.0000 gives 20.00.
C15_AmountMatchesReference ==
    LET r == calc.out
        base == pricing.ticket_price * calc.cnt
        payment_currency == MethodCurrency(calc.m)
    IN
    (calc.pc = "out" /\ calc.m \in available_payment_methods) =>
        /\ pricing.currency = payment_currency =>
               r = [NoAmount EXCEPT !.amount = base, !.currency = payment_currency]
        /\ pricing.currency # payment_currency =>
               /\ r.err \in {"", "ExchangeRateUnavailableError"}
               /\ r.err = "" =>
                      /\ r.rate # NoRate
                      /\ r.currency = payment_currency
                      /\ r.amount = RefConvert(pricing.currency, base, r.rate)
        /\ (CalcOf("USD", 1000, 3, 2) /\ r.rate = 400000) => r.amount = 120000
        /\ (CalcOf("VEF", 40000, 2, 1) /\ r.rate = 400000) => r.amount = 2000

\* 9.99 x 1 at 36.6525 is 366.158475, paid as 366.16
C15_Witness ==
    /\ CalcOf("USD", 999, 1, 2)
    /\ calc.out.rate = 366525
    /\ calc.out.amount = 36616


\* ------------------------------------------------------------------ C16
\* the dates of the stored ExchangeRates that are not after date
StoredUpTo(date) == {d \in RateDays : rates[d] # NoRate /\ d <= date}

\* create_payment call s is for a payment method of the raffle in a
\* currency other than the raffle's
CrossCurrency(s) ==
    /\ pcall[s].m \in available_payment_methods
    /\ MethodCurrency(pcall[s].m) # pricing.currency

\* the step in which call s computes its amount
C16_Lookup(s) ==
    LET c == pcall'[s] IN
    (pcall[s].pc = "calc" /\ c.pc # "calc" /\ CrossCurrency(s)) =>
        IF StoredUpTo(c.date) = {}
        THEN /\ c.pc = "done"
             /\ c.ret = "ExchangeRateUnavailableError"
             /\ c.out.err = "ExchangeRateUnavailableError"
             /\ UNCHANGED <<parts, pay, payPk, payrows, made>>
        ELSE /\ c.pc = "save"
             /\ c.out.err = ""
             /\ c.out.rate_date \in StoredUpTo(c.date)
             /\ \A d \in StoredUpTo(c.date) : d <= c.out.rate_date
             /\ c.out.rate = rates[c.out.rate_date]

\* the step in which call s inserts its Payment
C16_Applied(s) ==
    (pcall[s].pc = "save" /\ pcall'[s].ret = "ok" /\ CrossCurrency(s)) =>
        \E r \in payrows' \ payrows :
            /\ r.p = pcall[s].p
            /\ r.rate = pcall[s].out.rate
            /\ r.amount = pcall[s].out.amount

\* C16: the rate used for a cross-currency payment is the stored rate with
\* the greatest date that is <= payment_date, never one dated after it;
\* when no stored rate has date <= payment_date the calculation fails with
\* ExchangeRateUnavailableError and create_payment creates no Payment.
C16_RateLookup == [][\A s \in Slots : C16_Lookup(s) /\ C16_Applied(s)]_vars

\* a call has failed for want of a rate although a later rate is stored, and
\* another has been paid at the rate of its day, a later one being stored
C16_Witness ==
    \E s1, s2 \in Slots :
        /\ pcall[s1].pc = "done"
        /\ pcall[s1].ret = "ExchangeRateUnavailableError"
        /\ \E d \in RateDays : d > pcall[s1].date /\ rates[d] # NoRate
        /\ pcall[s1].p \notin made
        /\ pcall[s2].ret = "ok"
        /\ pcall[s2].out.rate_date # NullDate
        /\ pcall[s2].out.rate_date <= pcall[s2].date
        /\ \E d \in RateDays : d > pcall[s2].date /\ rates[d] # NoRate

\* ------------------------------------------------------------------ C17
\* no two Payment rows have the same payment_hash
HashUnique == \A r1, r2 \in payrows : r1.hash = r2.hash => r1 = r2

\* the Payment of participation p was there before any call
PaidBefore(p) == p \notin made /\ (pay[p] # "NONE" \/ \E r \in payrows : r.p = p)

\* calls s1 and s2 have ended; they reported the same (method, reference,
\* date) for two participations and were to pay the same amount
SameReport(s1, s2) ==
    LET c1 == pcall[s1]
        c2 == pcall[s2]
    IN
    /\ s1 # s2
    /\ c1.pc = "done" /\ c2.pc = "done"
    /\ c1.p # c2.p
    /\ c1.out.err = "" /\ c2.out.err = ""
    /\ <<c1.m, c1.ref, c1.date, c1.out.amount>> = <<c2.m, c2.ref, c2.date, c2.out.amount>>

\* the report of call s as it is hashed
ReportHash(s) ==
    _generate_hash(pcall[s].m, pcall[s].ref, pcall[s].date, pcall[s].out.amount)

\* nothing but calls s1 and s2 stands in their way: their participations had
\* no Payment and no Payment had their hash before the calls, and no other
\* call has inserted a Payment for either participation or with that hash
OnlyReports(s1, s2) ==
    /\ ~PaidBefore(pcall[s1].p) /\ ~PaidBefore(pcall[s2].p)
    /\ \A r \in payrows : r.hash = ReportHash(s1) => r.p \in made
    /\ \A s \in Slots \ {s1, s2} :
           pcall[s].ret = "ok" =>
               /\ pcall[s].p \notin {pcall[s1].p, pcall[s2].p}
               /\ ReportHash(s) # ReportHash(s1)

\* C17: in every reachable state no two Payments have the same dedup hash
\* of (payment method id, reference, payment date, amount); when two
\* create_payment calls with identical (method, reference, date, amount) for
\* different participations run in any interleaving, exactly one Payment is
\* created and the other call fails with DuplicatePaymentError without
\* creating a Payment.
C17_PaymentDedup ==
    /\ HashUnique
    /\ \A s1, s2 \in Slots :
           (SameReport(s1, s2) /\ OnlyReports(s1, s2)) =>
               /\ {pcall[s1].ret, pcall[s2].ret} = {"ok", "DuplicatePaymentError"}
               /\ \A s \in {s1, s2} : (pcall[s].ret = "ok") <=> (pcall[s].p \in made)
               /\ Cardinality({r \in payrows : r.p \in {pcall[s1].p, pcall[s2].p}}) = 1
               /\ Cardinality({r \in payrows : r.hash = ReportHash(s1)}) = 1

\* two calls made the same report for two participations: one was refused
\* and the Payment of the other is in
C17_Witness ==
    \E s1, s2 \in Slots :
        /\ SameReport(s1, s2) /\ OnlyReports(s1, s2)
        /\ pcall[s1].ret = "DuplicatePaymentError"
        /\ pcall[s2].ret = "ok"
        /\ s1 < s2


\* ------------------------------------------------------------------ C18
\* the Payment rows of participation p
PaymentsOf(p) == {r \in payrows : r.p = p}

AtMostOnePayment == \A p \in PIDs : Cardinality(PaymentsOf(p)) <= 1

\* the step that ends create_payment call s, its participation having a
\* Payment already
C18_Refused(s) ==
    LET p == pcall[s].p IN
    (pcall[s].pc \in {"calc", "save"} /\ pcall'[s].pc = "done" /\ pay[p] # "NONE") =>
        /\ pcall'[s].ret \in {"DuplicatePaymentError", "InvalidPaymentMethodError",
                              "ExchangeRateUnavailableError"}
        /\ PaymentsOf(p)' = PaymentsOf(p)
        /\ pay'[p] = pay[p]
        /\ payPk'[p] = payPk[p]

\* C18: every Participation has at most one Payment in every reachable
\* state: a create_payment on a participation that already has a Payment,
\* whatever reference, date or amount it reports and whether or not the two
\* calls overlap, fails and leaves the existing Payment's fields and status
\* unchanged.
C18_OnePaymentPerParticipation ==
    [][AtMostOnePayment /\ AtMostOnePayment' /\ \A s \in Slots : C18_Refused(s)]_vars

\* two calls for one participation reported different references and dates:
\* the Payment is the one of the call that saved, the other was refused
C18_Witness ==
    \E s1, s2 \in Slots :
        /\ pcall[s1].pc = "done" /\ pcall[s2].pc = "done"
        /\ pcall[s1].p = pcall[s2].p
        /\ pcall[s1].date # pcall[s2].date
        /\ pcall[s1].ref # pcall[s2].ref
        /\ pcall[s1].ret = "ok"
        /\ pcall[s2].ret = "DuplicatePaymentError"
        /\ PaymentsOf(pcall[s1].p) =
               {PaymentRow(pcall[s1].p, pcall[s1].m, pcall[s1].ref, pcall[s1].date,
                           pcall[s1].out)}


\* ------------------------------------------------------------------ C19
\* total_tickets minus the ticket_count of the participations whose payment
\* is not REJECTED
TicketsLeft == TotalTickets - SumCount({p \in parts : pay[p] # "REJECTED"})

RaffleAvailable == raffle.is_active /\ raffle.status = "IN_PROGRESS"

NothingCreated == UNCHANGED <<parts, count, pay, payPk, payrows, tickets>>

\* the step in which create_participation in slot s validates the raffle
C19_Validate(s) ==
    (proc[s].op = "idle" /\ proc'[s] # proc[s]) =>
        IF RaffleAvailable
        THEN proc'[s].pc = "cp_check" /\ NothingCreated
        ELSE /\ proc'[s].pc = "done"
             /\ proc'[s].ret = "RaffleNotAvailableError"
             /\ NothingCreated

\* the step in which it counts the tickets left
C19_Count(s) ==
    (proc[s].pc = "cp_check" /\ proc'[s] # proc[s]) =>
        IF proc[s].k > TicketsLeft
        THEN /\ proc'[s].pc = "done"
             /\ proc'[s].ret = "NotEnoughTicketsError"
             /\ NothingCreated
        ELSE proc'[s].pc = "cp_insert" /\ NothingCreated

\* the step in which it creates the participation
C19_Create(s) ==
    (proc[s].pc = "cp_insert" /\ proc'[s] # proc[s]) =>
        /\ proc'[s].ret = "ok"
        /\ \E p \in PIDs \ parts :
               /\ parts' = parts \cup {p}
               /\ count' = [count EXCEPT ![p] = proc[s].k]
               /\ proc'[s].p = p
        /\ UNCHANGED <<pay, payPk, payrows, tickets>>

\* C19: create_participation fails with RaffleNotAvailableError when the
\* raffle is not is_active or its status is not IN_PROGRESS (checked first),
\* and with NotEnoughTicketsError when ticket_count exceeds total_tickets
\* minus the sum of ticket_count over non-REJECTED participations; in both
\* failure cases no Participation is created, and on success exactly one
\* Participation and no Payment or Ticket is created.
C19_CreateParticipation ==
    [][\A s \in Slots : C19_Validate(s) /\ C19_Count(s) /\ C19_Create(s)]_vars

\* one call was refused for want of tickets while another created the one
\* participation there is, which has neither Payment nor Tickets; the
\* participation of before has a REJECTED payment
C19_Witness ==
    \E s1, s2 \in Slots :
        /\ proc[s1].ret = "NotEnoughTicketsError"
        /\ proc[s2].ret = "ok"
        /\ proc[s2].p \in parts
        /\ pay[proc[s2].p] = "NONE"
        /\ TicketsOf(proc[s2].p) = {}
        /\ \E p \in parts : pay[p] = "REJECTED"


\* ------------------------------------------------------------------ C20
\* C20: a REJECTED payment is terminal: once a Payment's status is REJECTED,
\* no subsequent operation (approve_payment, the admin bulk approve action,
\* an admin status change) changes its status or assigns tickets to its
\* participation; the row may still be deleted.
C20_RejectedTerminal ==
    [][\A p \in PIDs :
          (p \in parts /\ pay[p] = "REJECTED") =>
              /\ pay'[p] \in {"REJECTED", "NONE"}
              /\ TicketsOf(p)' \subseteq TicketsOf(p)]_vars


\* ------------------------------------------------------------------ C21
\* the numbers no participation other than p1 and p2 holds
RoomFor(p1, p2) ==
    Cardinality(Numbers \ {t.n : t \in {u \in tickets : u.p \notin {p1, p2}}})

\* C21: when approve_payment runs concurrently for two different payments
\* of the same raffle and the raffle has at least as many unassigned numbers
\* as both participations request together, no interleaving lets the two
\* allocations pick the same ticket_number, and both approvals succeed with
\* each participation holding exactly its ticket_count tickets.
C21_ConcurrentAllocation ==
    \A s1, s2 \in Slots :
        LET p1 == proc[s1].p
            p2 == proc[s2].p
        IN
        ( /\ OnlyCalls(s1, s2)
          /\ p1 # p2
          /\ RoomFor(p1, p2) >= count[p1] + count[p2] )
        => /\ proc[s1].ret = "ok" /\ proc[s2].ret = "ok"
           /\ Cardinality(TicketsOf(p1)) = count[p1]
           /\ Cardinality(TicketsOf(p2)) = count[p2]
           /\ NumbersOf(p1) \cap NumbersOf(p2) = {}


\* ------------------------------------------------------------------ C22
\* C22: the reaper never destroys a reported payment: in any interleaving
\* of the reaper run for participation P with a create_payment for P,
\* either the reaper deletes P and create_payment creates no Payment, or
\* create_payment succeeds and afterwards both P and its Payment still
\* exist; the reaper deletes P only if no Payment exists for P at the moment
\* of deletion.
C22_ReaperSparesPayments ==
    [][\A p \in PIDs :
          /\ (p \in parts /\ p \notin parts') => pay[p] = "NONE"
          /\ (p \in parts /\ pay[p] # "NONE") => pay'[p] = pay[p]]_vars

\* C23: a failed approval leaves no trace.  Whenever an attempt to approve a
\* payment fails because fewer than ticket_count numbers remain unassigned,
\* the payment's status after the attempt is its status before the attempt
\* and no Ticket has been created, for a direct approve_payment call and
\* for the admin status change to APPROVED alike.
AllocationFails(p) ==
    /\ ~HasTickets(p)
    /\ Cardinality(available_numbers) < count[p]

C23_FailedApprovalNoTrace ==
    [][\A s \in Slots :
          LET p == proc[s].p IN
          ( /\ proc'[s] # proc[s]
            /\ PaymentExists(p, proc[s].gen)
            /\ AllocationFails(p)
            /\ \/ proc[s].pc = "ap_begin"
               \/ /\ proc[s].pc = "sm_save"
                  /\ proc[s].new = "APPROVED"
                  /\ proc[s].st # "APPROVED" )
          => /\ pay'[p] = pay[p]
             /\ tickets' = tickets]_vars

\* C24: assign_tickets_to_participation fails, creates no Ticket and leaves
\* every Ticket as it is, when the participation already has a Ticket and
\* when fewer than ticket_count numbers of [0, total_tickets) are unassigned
\* in the raffle; otherwise it creates exactly ticket_count Tickets of that
\* participation, with unassigned numbers, and changes no other Ticket.
AssignStep(s) ==
    /\ proc[s].pc \in {"as_first", "as_again"}
    /\ proc'[s] # proc[s]

Unassigned == Numbers \ {t.n : t \in tickets}

C24_MustFail(p) ==
    \/ \E t \in tickets : t.p = p
    \/ Cardinality(Unassigned) < count[p]

C24_AssignAllOrNothing ==
    [][\A s \in Slots :
          LET p == proc[s].p
              created == tickets' \ tickets
          IN
          AssignStep(s) =>
             IF C24_MustFail(p)
             THEN /\ tickets' = tickets
                  /\ proc'[s].pc = "done"
                  /\ proc'[s].ret = "ValueError"
             ELSE /\ tickets \subseteq tickets'
                  /\ proc'[s].ret # "ValueError"
                  /\ Cardinality(created) = count[p]
                  /\ \A t \in created : t.p = p /\ t.n \in Unassigned
                  /\ Cardinality({t.n : t \in created}) = count[p]]_vars

\* C24 witness: one caller was refused on a participation that holds its
\* tickets, and another participation got a whole batch of MaxCount.
C24_Witness ==
    /\ \E s \in Slots :
          /\ proc[s].pc = "done" /\ proc[s].ret = "ValueError"
          /\ proc[s].st = "first"
          /\ Cardinality(TicketsOf(proc[s].p)) = count[proc[s].p]
    /\ \E s \in Slots :
          /\ proc[s].pc = "revoke"
          /\ Cardinality(proc[s].chosen) = MaxCount
          /\ proc[s].chosen = NumbersOf(proc[s].p)

\* C25: revert_approved_payment changes nothing except the Tickets of the
\* payment's own participation.  When it returns, that participation has no
\* Ticket, the Payment (its status and every other field) is what it was,
\* the Tickets of every other participation are what they were, and no
\* other row has changed; on a participation without Tickets it succeeds
\* and changes nothing.
RevertStep(s) ==
    /\ proc[s].pc = "rv_run"
    /\ proc'[s] # proc[s]
    /\ PaymentExists(proc[s].p, proc[s].gen)

RevokeCommits(s) == dcall[s].pc = "rv_write" /\ dcall'[s] # dcall[s]

C26_RevokeResets ==
    [][\A s \in Slots :
          RevokeCommits(s) =>
             LET d == dcall[s].d IN
             /\ dcall'[s].ret = "ok"
             /\ prize'.winner = 0
             /\ prize'.ticket = NullNumber
             /\ d \in LatestCompleted
             /\ draws'[d].status = "ROLLED_OVER"
             /\ \E n \in DrawIds \ {d} :
                   /\ draws[n].status = "NONE"
                   /\ draws'[n].status = "SCHEDULED"
                   /\ \A e \in DrawIds \ {d, n} : draws'[e] = draws[e]]_vars

\* C27: bounded retries.  Over the runs of the rate update job within one
\* calendar day, however they interleave, the scraper is called at most
\* MAX_ATTEMPTS times.
C27_BoundedRetries == scraped <= MAX_ATTEMPTS

\* C28: reservation release is eventual.  A Participation created by the
\* public operation (its cleanup job is scheduled) is eventually deleted,
\* so that its ticket_count no longer counts against the raffle, unless a
\* Payment is created for it; the job runner runs every scheduled job.
C28_ReservationReleased ==
    \A p \in PIDs :
        (p \in jobs /\ p \in parts) ~> (p \notin parts \/ pay[p] # "NONE")

\* C28 witness: the first participation the public operation created was
\* never paid and is gone, and its job is no longer scheduled.
C28_Witness ==
    /\ nextId > 1
    /\ 1 \notin parts
    /\ 1 \notin jobs
    /\ payPk[1] = 0
    /\ \A s \in Slots : proc[s].op = "idle"

\* C29: the winner's ticket exists.  When the prize has a
\* winner_participation and a winner_ticket_number, a Ticket with that
\* number exists in the raffle and belongs to that participation, also
\* after the winner's payment is reverted.
C29_WinnerTicketExists ==
    (prize.winner # 0 /\ prize.ticket # NullNumber)
    => [n |-> prize.ticket, p |-> prize.winner] \in tickets

\* C30: every unassigned prize stays resolvable.  From a prize without a
\* winner and with one SCHEDULED draw, after any sequence of
\* process_draw_result and revoke_prize_assignment calls, the prize has a
\* SCHEDULED draw while its winner_participation is null and none while it
\* has a winner.
C30_StaysResolvable ==
    IF prize.winner = 0
    THEN \E d \in DrawsOfPrize : draws[d].status = "SCHEDULED"
    ELSE \A d \in DrawsOfPrize : draws[d].status # "SCHEDULED"

\* C30 witness: the prize was won, revoked and won again; its first draw
\* was rolled over by the revocation and no draw is SCHEDULED.
C30_Witness ==
    /\ prize.winner # 0
    /\ Cardinality(completed) = 2
    /\ \E d \in completed : draws[d].status = "ROLLED_OVER"
    /\ \E d \in completed : draws[d].status = "COMPLETED"
    /\ \A s \in Slots : DFree(s)
====
